---- MODULE Spec2Model ----
(***************************************************************************)
(* Model of app.py of qr_splitter: one run of the Streamlit script          *)
(* (decode or typed text -> generate_split_qrs -> create_label_pages ->     *)
(* save_pages_to_pdf_bytes -> download button), and direct calls of         *)
(* create_label_pages with arbitrary layout parameters.                     *)
(*                                                                          *)
(* Strings are sequences of one-character strings.  Real-valued parameters  *)
(* are kept as integers: inches in hundredths, ratios in percent.           *)
(***************************************************************************)
EXTENDS Integers, Sequences, FiniteSets, TLC

VARIABLES
    pc,             \* position of the run: "script", "generate", "compose", "shrink", "save", "end"
    mode,           \* st.radio value, or "direct" for a direct call of create_label_pages
    uploaded,       \* st.file_uploader value
    text_input,     \* st.text_input value
    clicked,        \* st.button("Generate PDF") value
    count,          \* st.number_input value
    cfg,            \* keyword arguments of create_label_pages
    fontKind,       \* which font _load_font finds installed
    base_text,      \* result of read_qr_code
    qr_images,      \* list of (label_text, qr_img)
    idx,            \* position of the for loop of create_label_pages (1-based)
    base_font_size, \* local of create_label_pages
    tw,             \* local of create_label_pages
    th,             \* local of create_label_pages
    iters,          \* number of iterations of the while loop for the current label
    pages,          \* list of label canvases
    pdf_bytes,      \* the document handed to st.download_button
    error,          \* message of st.error, "" when none
    download        \* st.download_button was shown

vars == <<pc, mode, uploaded, text_input, clicked, count, cfg, fontKind, base_text,
          qr_images, idx, base_font_size, tw, th, iters, pages, pdf_bytes, error, download>>

-----------------------------------------------------------------------------
(* Bounds of the model *)

MaxCount == 3
LongLen == 80

-----------------------------------------------------------------------------
(* Program constants *)

MinFontSize == 8
DefaultDpi == 300
DefaultInnerMargin == 8
QrBoxSize == 10
QrBorder == 2

-----------------------------------------------------------------------------
(* Strings *)

Repeat(c, n) == [i \in 1..n |-> c]

DigitChars == <<"0", "1", "2", "3", "4", "5", "6", "7", "8", "9">>

\* str(i) of a non-negative integer, as the f-string formats it
RECURSIVE Str(_)
Str(n) == IF n < 10 THEN <<DigitChars[n + 1]>>
          ELSE Str(n \div 10) \o <<DigitChars[(n % 10) + 1]>>

IsSpace(c) == c \in {" ", "\t", "\n"}

RECURSIVE LStrip(_)
LStrip(s) == IF s # <<>> /\ IsSpace(Head(s)) THEN LStrip(Tail(s)) ELSE s

RECURSIVE RStrip(_)
RStrip(s) == IF s # <<>> /\ IsSpace(s[Len(s)]) THEN RStrip(SubSeq(s, 1, Len(s) - 1)) ELSE s

\* str.strip()
Strip(s) == RStrip(LStrip(s))

None == [isNone |-> TRUE, val |-> <<>>]
Some(s) == [isNone |-> FALSE, val |-> s]

\* truth value of an optional string: None and "" are false
Truthy(o) == ~o.isNone /\ o.val # <<>>

-----------------------------------------------------------------------------
(* Helpers of app.py *)

\* detector.detectAndDecode: the decoded text, "" when nothing is decoded
detectAndDecode(image) == IF image.hasQR THEN image.data ELSE <<>>

read_qr_code(image) ==
    LET data == detectAndDecode(image)
    IN  IF data # <<>> THEN Some(data) ELSE None

QRImage(data) == [data |-> data, box_size |-> QrBoxSize, border |-> QrBorder, ec |-> "M"]

\* generate_split_qrs with the suffix appended for a single label too
generate_split_qrs_suffixed(base, n) ==
    [i \in 1..n |->
        LET data == base \o <<"-">> \o Str(i)
        IN  <<data, QRImage(data)>>]

generate_split_qrs(base, n) ==
    [i \in 1..n |->
        LET data == IF n > 1 THEN base \o <<"-">> \o Str(i) ELSE base
        IN  <<data, QRImage(data)>>]

\* _load_font: a TrueType font of the size asked, or the built-in fixed-size font
load_font(kind, size) ==
    IF kind = "truetype" THEN [kind |-> "truetype", size |-> size]
    ELSE [kind |-> "default", size |-> 10]

\* _text_size: (width, height) of the bounding box of the text
text_size(text, font) ==
    IF Len(text) = 0 THEN <<0, 0>>
    ELSE IF font.kind = "truetype"
         THEN <<Len(text) * ((font.size * 6) \div 10), font.size>>
         ELSE <<Len(text) * 6, 11>>

-----------------------------------------------------------------------------
(* Arithmetic of create_label_pages *)

\* int(round(x)) of x = num/den >= 0: round() goes to the nearest integer, a tie to the even one
RoundHalfEven(num, den) ==
    LET q == num \div den
        r == num % den
    IN  IF 2 * r < den THEN q
        ELSE IF 2 * r > den THEN q + 1
        ELSE IF q % 2 = 0 THEN q ELSE q + 1

\* The pairs (n, pct) among the inputs of the model for which the double product
\* n * (pct / 100.0) lies just below the exact one: 300 * 0.57 = 170.99999999999997
FloatShort == {<<300, 57>>}

\* int(n * ratio) with ratio = pct / 100.0 a double
TruncPct(n, pct) ==
    IF <<n, pct>> \in FloatShort THEN ((n * pct) \div 100) - 1 ELSE (n * pct) \div 100

Max(a, b) == IF a >= b THEN a ELSE b

\* LABEL_W with int() alone, round() forgotten
LABEL_W_truncated(c) == (c.label_width_in100 * c.dpi) \div 100

LABEL_W(c) == RoundHalfEven(c.label_width_in100 * c.dpi, 100)
LABEL_H(c) == RoundHalfEven(c.label_height_in100 * c.dpi, 100)
qr_size(c) == TruncPct(LABEL_W(c), c.qr_width_pct)

\* base_font_size before the while loop
InitialFontSize(c) == Max(MinFontSize, TruncPct(qr_size(c), c.font_width_pct))

max_text_width(c) == LABEL_W(c) - 2 * c.inner_margin_px

\* the loop condition with the test of the minimum size forgotten
ShrinkCondNoFloor(w, size, c) == w > max_text_width(c)

\* the loop condition comparing the caption with the height of the label
ShrinkCondHeight(w, size, c) ==
    (w > LABEL_H(c) - 2 * c.inner_margin_px) /\ (size > MinFontSize)

\* condition of the while loop
ShrinkCond(w, size, c) == (w > max_text_width(c)) /\ (size > MinFontSize)

\* start_y without the max(): always centered
StartYCentered(c, height) ==
    (LABEL_H(c) - (qr_size(c) + c.vertical_spacing_px + height)) \div 2

\* start_y with the halving forgotten
StartYNotHalved(c, height) ==
    Max(c.inner_margin_px, LABEL_H(c) - (qr_size(c) + c.vertical_spacing_px + height))

\* start_y
StartY(c, height) ==
    Max(c.inner_margin_px, (LABEL_H(c) - (qr_size(c) + c.vertical_spacing_px + height)) \div 2)

\* the rectangles of the border, outermost first
BorderRects(c) ==
    [i \in 1..c.border_thickness_px |->
        <<i - 1, i - 1, LABEL_W(c) - 1 - (i - 1), LABEL_H(c) - 1 - (i - 1)>>]

\* the canvas of one label once the QR code is pasted and the caption drawn
LabelPage(c, label_text, qr_img, size, w, h, n) ==
    LET start_y == StartY(c, h)
    IN  [ width     |-> LABEL_W(c),
          height    |-> LABEL_H(c),
          border    |-> BorderRects(c),
          qr        |-> [data |-> qr_img.data, side |-> qr_size(c)],
          qr_x      |-> (LABEL_W(c) - qr_size(c)) \div 2,
          qr_y      |-> start_y,
          text      |-> label_text,
          font      |-> load_font(fontKind, size),
          font_size |-> size,
          text_w    |-> w,
          text_h    |-> h,
          text_x    |-> (LABEL_W(c) - w) \div 2,
          text_y    |-> start_y + qr_size(c) + c.vertical_spacing_px,
          shrinks   |-> n ]

\* save_pages_to_pdf_bytes with append_images=pages: the first page twice
save_pages_to_pdf_bytes_all(ps) ==
    IF ps = <<>> THEN <<>> ELSE <<ps[1]>> \o ps

\* save_pages_to_pdf_bytes: the pages of the document, none for b""
save_pages_to_pdf_bytes(ps) ==
    IF ps = <<>> THEN <<>> ELSE <<ps[1]>> \o Tail(ps)

-----------------------------------------------------------------------------
(* Inputs *)

Modes == {"Upload & Split", "Generate & Split"}

NoUpload == [present |-> FALSE, hasQR |-> FALSE, data |-> <<>>]
Photo == [present |-> TRUE, hasQR |-> FALSE, data |-> <<>>]
QRPhoto(d) == [present |-> TRUE, hasQR |-> TRUE, data |-> d]

LongText == Repeat("W", LongLen)

TypedTexts == {<<>>, <<" ">>, <<"A", "B", "C">>, <<" ", "S", "R", "1", " ">>, LongText}

Uploads == {NoUpload, Photo, QRPhoto(<<" ">>), QRPhoto(<<"S", "R", "0", "0", "1">>),
            QRPhoto(LongText)}

Counts == 1..MaxCount \cup {10}

\* the sliders of the "Advanced layout" expander; the other arguments keep their defaults
UiConfigs ==
    [ label_width_in100   : {100},
      label_height_in100  : {250},
      dpi                 : {DefaultDpi},
      border_thickness_px : {1, 2},
      qr_width_pct        : {57, 75, 90},
      font_width_pct      : {20, 40, 60},
      vertical_spacing_px : {0, 20},
      inner_margin_px     : {DefaultInnerMargin} ]

\* arguments of a direct call of create_label_pages
DirectConfigs ==
    [ label_width_in100   : {25, 100, 110},
      label_height_in100  : {50, 250},
      dpi                 : {96, 150, DefaultDpi},
      border_thickness_px : {2},
      qr_width_pct        : {75, 90},
      font_width_pct      : {40},
      vertical_spacing_px : {0, 20},
      inner_margin_px     : {0, DefaultInnerMargin} ]

DirectTexts == {<<>>, <<"A", "B", "C", "-", "1">>, Repeat("W", 2 * MaxCount)}

DirectLists ==
    {<<<<t, QRImage(t)>>>> : t \in DirectTexts}
    \cup {<<<<t, QRImage(t)>>, <<u, QRImage(u)>>>> : t \in DirectTexts, u \in DirectTexts}

FontKinds == {"truetype", "default"}

-----------------------------------------------------------------------------
(* The run of the script *)

Blank ==
    /\ base_text = None
    /\ idx = 1
    /\ base_font_size = 0
    /\ tw = 0
    /\ th = 0
    /\ iters = 0
    /\ pages = <<>>
    /\ pdf_bytes = <<>>
    /\ error = ""
    /\ download = FALSE

Init ==
    /\ pc = "script"
    /\ mode \in Modes
    /\ clicked \in BOOLEAN
    /\ count \in Counts
    /\ cfg \in UiConfigs
    /\ fontKind \in FontKinds
    /\ \/ mode = "Upload & Split" /\ uploaded \in Uploads /\ text_input = <<>>
       \/ mode = "Generate & Split" /\ uploaded = NoUpload /\ text_input \in TypedTexts
    /\ qr_images = <<>>
    /\ Blank

\* Upload & Split, nothing uploaded: the script ends
UploadNothing ==
    /\ pc = "script" /\ mode = "Upload & Split" /\ ~uploaded.present
    /\ pc' = "end"
    /\ UNCHANGED <<mode, uploaded, text_input, clicked, count, cfg, fontKind, base_text,
                   qr_images, idx, base_font_size, tw, th, iters, pages, pdf_bytes,
                   error, download>>

\* UploadDecode with the test of base_text forgotten
UploadDecodeUnchecked ==
    /\ pc = "script" /\ mode = "Upload & Split" /\ uploaded.present
    /\ base_text' = read_qr_code(uploaded)
    /\ pc' = IF clicked THEN "generate" ELSE "end"
    /\ UNCHANGED <<mode, uploaded, text_input, clicked, count, cfg, fontKind,
                   qr_images, idx, base_font_size, tw, th, iters, pages, pdf_bytes,
                   error, download>>

\* Upload & Split: read_qr_code, then st.success and the button, or st.error
UploadDecode ==
    /\ pc = "script" /\ mode = "Upload & Split" /\ uploaded.present
    /\ base_text' = read_qr_code(uploaded)
    /\ IF Truthy(base_text')
       THEN /\ pc' = IF clicked THEN "generate" ELSE "end"
            /\ error' = error
       ELSE /\ pc' = "end"
            /\ error' = "Could not read a QR code from the uploaded image."
    /\ UNCHANGED <<mode, uploaded, text_input, clicked, count, cfg, fontKind,
                   qr_images, idx, base_font_size, tw, th, iters, pages, pdf_bytes, download>>

\* Upload & Split, button pressed: generate_split_qrs(base_text, int(count))
UploadGenerate ==
    /\ pc = "generate" /\ mode = "Upload & Split"
    /\ qr_images' = generate_split_qrs(base_text.val, count)
    /\ pc' = "compose"
    /\ UNCHANGED <<mode, uploaded, text_input, clicked, count, cfg, fontKind, base_text,
                   idx, base_font_size, tw, th, iters, pages, pdf_bytes, error, download>>

\* Generate & Split, button not pressed
TypedIdle ==
    /\ pc = "script" /\ mode = "Generate & Split" /\ ~clicked
    /\ pc' = "end"
    /\ UNCHANGED <<mode, uploaded, text_input, clicked, count, cfg, fontKind, base_text,
                   qr_images, idx, base_font_size, tw, th, iters, pages, pdf_bytes,
                   error, download>>

\* Generate & Split, button pressed, nothing but blanks typed
TypedEmpty ==
    /\ pc = "script" /\ mode = "Generate & Split" /\ clicked
    /\ Strip(text_input) = <<>>
    /\ error' = "Please enter some text."
    /\ pc' = "end"
    /\ UNCHANGED <<mode, uploaded, text_input, clicked, count, cfg, fontKind, base_text,
                   qr_images, idx, base_font_size, tw, th, iters, pages, pdf_bytes, download>>

\* Generate & Split, button pressed: generate_split_qrs(text_input.strip(), int(count))
TypedGenerate ==
    /\ pc = "script" /\ mode = "Generate & Split" /\ clicked
    /\ Strip(text_input) # <<>>
    /\ qr_images' = generate_split_qrs(Strip(text_input), count)
    /\ pc' = "compose"
    /\ UNCHANGED <<mode, uploaded, text_input, clicked, count, cfg, fontKind, base_text,
                   idx, base_font_size, tw, th, iters, pages, pdf_bytes, error, download>>

\* create_label_pages, top of the for loop: the canvas, the border, the resized QR,
\* the first font and the first measure
BeginLabel ==
    /\ pc = "compose" /\ idx <= Len(qr_images)
    /\ LET size == InitialFontSize(cfg)
           m == text_size(qr_images[idx][1], load_font(fontKind, size))
       IN  /\ base_font_size' = size
           /\ tw' = m[1]
           /\ th' = m[2]
    /\ iters' = 0
    /\ pc' = "shrink"
    /\ UNCHANGED <<mode, uploaded, text_input, clicked, count, cfg, fontKind, base_text,
                   qr_images, idx, pages, pdf_bytes, error, download>>

\* ShrinkStep with the measure of the smaller font forgotten
ShrinkStepStale ==
    /\ pc = "shrink" /\ ShrinkCond(tw, base_font_size, cfg)
    /\ base_font_size' = base_font_size - 1
    /\ iters' = iters + 1
    /\ UNCHANGED <<pc, mode, uploaded, text_input, clicked, count, cfg, fontKind, base_text,
                   qr_images, idx, tw, th, pages, pdf_bytes, error, download>>

\* one iteration of the while loop
ShrinkStep ==
    /\ pc = "shrink" /\ ShrinkCond(tw, base_font_size, cfg)
    /\ base_font_size' = base_font_size - 1
    /\ LET m == text_size(qr_images[idx][1], load_font(fontKind, base_font_size'))
       IN  tw' = m[1] /\ th' = m[2]
    /\ iters' = iters + 1
    /\ UNCHANGED <<pc, mode, uploaded, text_input, clicked, count, cfg, fontKind, base_text,
                   qr_images, idx, pages, pdf_bytes, error, download>>

\* the while loop is left: centering, paste, caption, pages.append(page)
PlaceLabel ==
    /\ pc = "shrink" /\ ~ShrinkCond(tw, base_font_size, cfg)
    /\ pages' = Append(pages, LabelPage(cfg, qr_images[idx][1], qr_images[idx][2],
                                        base_font_size, tw, th, iters))
    /\ idx' = idx + 1
    /\ pc' = "compose"
    /\ UNCHANGED <<mode, uploaded, text_input, clicked, count, cfg, fontKind, base_text,
                   qr_images, base_font_size, tw, th, iters, pdf_bytes, error, download>>

\* create_label_pages returns
ReturnPages ==
    /\ pc = "compose" /\ idx > Len(qr_images)
    /\ pc' = IF mode = "direct" THEN "end" ELSE "save"
    /\ UNCHANGED <<mode, uploaded, text_input, clicked, count, cfg, fontKind, base_text,
                   qr_images, idx, base_font_size, tw, th, iters, pages, pdf_bytes,
                   error, download>>

\* save_pages_to_pdf_bytes, st.download_button and the preview
SavePdf ==
    /\ pc = "save"
    /\ pdf_bytes' = save_pages_to_pdf_bytes(pages)
    /\ download' = TRUE
    /\ pc' = "end"
    /\ UNCHANGED <<mode, uploaded, text_input, clicked, count, cfg, fontKind, base_text,
                   qr_images, idx, base_font_size, tw, th, iters, pages, error>>

Next ==
    \/ UploadNothing
    \/ UploadDecode
    \/ UploadGenerate
    \/ TypedIdle
    \/ TypedEmpty
    \/ TypedGenerate
    \/ BeginLabel
    \/ ShrinkStep
    \/ PlaceLabel
    \/ ReturnPages
    \/ SavePdf

Spec == Init /\ [][Next]_vars

-----------------------------------------------------------------------------
(* A direct call of create_label_pages(qr_images, **cfg) *)

InitLayout ==
    /\ pc = "compose"
    /\ mode = "direct"
    /\ uploaded = NoUpload
    /\ text_input = <<>>
    /\ clicked = FALSE
    /\ qr_images \in DirectLists
    /\ count = Len(qr_images)
    /\ cfg \in DirectConfigs
    /\ fontKind \in FontKinds
    /\ Blank

NextLayout ==
    \/ BeginLabel
    \/ ShrinkStep
    \/ PlaceLabel
    \/ ReturnPages

SpecLayout == InitLayout /\ [][NextLayout]_vars

-----------------------------------------------------------------------------
(* Vocabulary of the properties *)

IsDigit(ch) == \E d \in 1..10 : DigitChars[d] = ch
DigitVal(ch) == (CHOOSE d \in 1..10 : DigitChars[d] = ch) - 1

\* the value of a string of decimal digits
RECURSIVE ParseDec(_)
ParseDec(s) == IF s = <<>> THEN 0
               ELSE ParseDec(SubSeq(s, 1, Len(s) - 1)) * 10 + DigitVal(s[Len(s)])

\* s is the decimal numeral of a positive integer, without leading zero
IsNumeral(s) == s # <<>> /\ (\A j \in 1..Len(s) : IsDigit(s[j])) /\ s[1] # "0"

\* d is b followed by "-" and the numeral of i
IsNumbered(d, b, i) ==
    /\ Len(d) >= Len(b) + 2
    /\ SubSeq(d, 1, Len(b)) = b
    /\ d[Len(b) + 1] = "-"
    /\ IsNumeral(SubSeq(d, Len(b) + 2, Len(d)))
    /\ ParseDec(SubSeq(d, Len(b) + 2, Len(d))) = i

\* the text the run takes its base string from, before any trimming
InputBase == IF mode = "Upload & Split" THEN detectAndDecode(uploaded) ELSE text_input

\* the base string handed to generate_split_qrs
RunBase == IF mode = "Upload & Split" THEN base_text.val ELSE Strip(text_input)

\* generate_split_qrs has returned in this run
Generated == pc \in {"compose", "shrink", "save"} \/ (pc = "end" /\ download)

Abs(x) == IF x >= 0 THEN x ELSE -x

\* n is an integer nearest to num/den
IsNearest(n, num, den) == 2 * Abs(n * den - num) <= den

\* x is the offset that centers an extent of size inner in one of size outer
IsCentering(x, inner, outer) == (outer - inner - x) - x \in {0, 1}

ContentHeight(pg) == pg.qr.side + cfg.vertical_spacing_px + pg.text_h

-----------------------------------------------------------------------------
(* Properties *)

\* C1: generate_split_qrs returns exactly count payloads in order: the base itself when
\* count = 1, and otherwise the i-th payload is the base followed by "-" and the decimal
\* numeral of i.
C1_ExpanderPayloads ==
    Generated =>
        /\ Len(qr_images) = count
        /\ \A i \in 1..Len(qr_images) :
              IF count = 1 THEN qr_images[i][1] = RunBase
              ELSE IsNumbered(qr_images[i][1], RunBase, i)

C1_Witness ==
    /\ Generated
    /\ count = 10
    /\ RunBase = <<"S", "R", "1">>
    /\ qr_images[10][1] = <<"S", "R", "1", "-", "1", "0">>

\* C2: whenever the split count is < 1 or the base string is empty after trimming, in
\* either input mode, the run produces no payload, no canvas and no document.
C2_EmptyBaseRejected ==
    (count < 1 \/ Strip(InputBase) = <<>>) =>
        /\ qr_images = <<>>
        /\ pages = <<>>
        /\ pdf_bytes = <<>>
        /\ ~download

\* C3: the document has exactly count pages, and its k-th page is the canvas of the k-th
\* payload of the expander.
C3_OnePagePerPayload ==
    (pc = "end" /\ download) =>
        /\ Len(pdf_bytes) = count
        /\ Len(pages) = count
        /\ \A k \in 1..Len(pdf_bytes) :
              /\ k <= Len(pages) /\ pdf_bytes[k] = pages[k]
              /\ k <= Len(qr_images) /\ pdf_bytes[k].text = qr_images[k][1]
              /\ pdf_bytes[k].qr.data = pdf_bytes[k].text
              /\ pdf_bytes[k].text =
                    IF count = 1 THEN RunBase ELSE RunBase \o <<"-">> \o Str(k)

C3_Witness ==
    /\ pc = "end" /\ download
    /\ text_input = <<"A", "B", "C">>
    /\ count = 3
    /\ Len(pdf_bytes) = 3
    /\ pdf_bytes[1].text = <<"A", "B", "C", "-", "1">>
    /\ pdf_bytes[2].text = <<"A", "B", "C", "-", "2">>
    /\ pdf_bytes[3].text = <<"A", "B", "C", "-", "3">>

\* C4: when the uploaded image holds no decodable QR code, read_qr_code reports none, the
\* run shows an error and ends: the expander, the compositor and the assembler are never
\* reached and no document is produced or offered.
C4_NotFoundHalts ==
    (mode = "Upload & Split" /\ uploaded.present /\ ~uploaded.hasQR /\ pc # "script") =>
        /\ pc = "end"
        /\ base_text = None
        /\ error # ""
        /\ qr_images = <<>>
        /\ pages = <<>>
        /\ pdf_bytes = <<>>
        /\ ~download

C4_Witness ==
    /\ mode = "Upload & Split" /\ uploaded = Photo /\ clicked
    /\ pc = "end"
    /\ error = "Could not read a QR code from the uploaded image."

\* C5: every canvas of a run is W x H pixels, W and H the integers nearest to the physical
\* width and height times the resolution, whatever the caption, the font size and the QR
\* size.
C5_CanvasSize ==
    \A k \in 1..Len(pages) :
        /\ IsNearest(pages[k].width, cfg.label_width_in100 * cfg.dpi, 100)
        /\ IsNearest(pages[k].height, cfg.label_height_in100 * cfg.dpi, 100)
        /\ pages[k].width = pages[1].width
        /\ pages[k].height = pages[1].height

C5_Witness ==
    /\ Len(pages) = 2
    /\ Len(pages[1].text) # Len(pages[2].text)
    /\ pages[1].font_size # pages[2].font_size
    /\ (cfg.label_width_in100 * cfg.dpi) % 100 # 0

\* C6 as stated: the caption as drawn is never wider than the canvas.
C6_NeverOverflows ==
    \A k \in 1..Len(pages) : pages[k].text_w <= pages[k].width

\* C6 as amended: a caption drawn at a font size above the minimum is never wider than the
\* canvas; only a caption drawn at the minimum font size can be.
C6_FitsAboveMinimum ==
    \A k \in 1..Len(pages) :
        pages[k].font_size > MinFontSize => pages[k].text_w <= pages[k].width

C6_Witness ==
    /\ pages # <<>>
    /\ pages[1].shrinks > 0
    /\ pages[1].font_size > MinFontSize
    /\ pages[1].text_w <= pages[1].width

\* C7: the font-shrink loop runs at most initial_size - min_font_size times, where
\* initial_size = max(min_font_size, qr_size * font_width_ratio); each iteration lowers the
\* size by one, the size never goes below the minimum, and at the minimum the loop is left.
C7_ShrinkBounded ==
    /\ pc = "shrink" =>
          /\ base_font_size = InitialFontSize(cfg) - iters
          /\ base_font_size >= MinFontSize
          /\ iters <= InitialFontSize(cfg) - MinFontSize
          /\ (base_font_size = MinFontSize => ENABLED PlaceLabel)
    /\ \A k \in 1..Len(pages) :
          /\ pages[k].shrinks <= InitialFontSize(cfg) - MinFontSize
          /\ pages[k].font_size = InitialFontSize(cfg) - pages[k].shrinks

C7_Witness ==
    /\ pc = "shrink"
    /\ iters > 100
    /\ iters = InitialFontSize(cfg) - MinFontSize
    /\ base_font_size = MinFontSize

\* C8: when the loop is left the caption fits the usable width W - 2*inner_margin or the
\* font is at its minimum size, and the width and height used for the layout are those
\* measured at the final font size.
C8_LoopExit ==
    \A k \in 1..Len(pages) :
        LET pg == pages[k]
            m == text_size(pg.text, load_font(fontKind, pg.font_size))
        IN  /\ pg.text_w <= pg.width - 2 * cfg.inner_margin_px \/ pg.font_size = MinFontSize
            /\ pg.text_w = m[1]
            /\ pg.text_h = m[2]
            /\ IsCentering(pg.text_x, m[1], pg.width)
            /\ pg.text_y - pg.qr_y = pg.qr.side + cfg.vertical_spacing_px
            /\ pg.qr_y > cfg.inner_margin_px =>
                  IsCentering(pg.qr_y, pg.qr.side + cfg.vertical_spacing_px + m[2], pg.height)

C8_Witness ==
    /\ pages # <<>>
    /\ fontKind = "truetype"
    /\ pages[1].shrinks > 0
    /\ pages[1].font_size = MinFontSize
    /\ pages[1].text_w > pages[1].width - 2 * cfg.inner_margin_px

\* C9: the top of the QR image is at max(inner_margin, (H - content_height) / 2), the
\* caption at that offset + qr_size + vertical_spacing, both centered horizontally: the
\* block is centered vertically unless that would put it above the top margin, and then
\* it starts at the margin.
C9_Placement ==
    \A k \in 1..Len(pages) :
        LET pg == pages[k]
            centered == (pg.height - ContentHeight(pg)) \div 2
        IN  /\ pg.qr_y = IF centered >= cfg.inner_margin_px THEN centered
                         ELSE cfg.inner_margin_px
            /\ pg.qr_y >= cfg.inner_margin_px
            /\ pg.qr_y > cfg.inner_margin_px =>
                  IsCentering(pg.qr_y, ContentHeight(pg), pg.height)
            /\ pg.text_y = pg.qr_y + pg.qr.side + cfg.vertical_spacing_px
            /\ IsCentering(pg.qr_x, pg.qr.side, pg.width)
            /\ IsCentering(pg.text_x, pg.text_w, pg.width)

C9_Witness ==
    /\ pages # <<>>
    /\ cfg.inner_margin_px > 0
    /\ pages[1].text_h > 0
    /\ (pages[1].height - ContentHeight(pages[1])) \div 2 < cfg.inner_margin_px
    /\ pages[1].qr_y = cfg.inner_margin_px

\* C10: when content_height <= H - 2*inner_margin the block lies between the margins; it
\* passes the bottom edge of the canvas only when content_height > H - 2*inner_margin.
C10_BlockInside ==
    \A k \in 1..Len(pages) :
        LET pg == pages[k]
            ch == ContentHeight(pg)
        IN  /\ ch <= pg.height - 2 * cfg.inner_margin_px =>
                  /\ pg.qr_y >= cfg.inner_margin_px
                  /\ pg.qr_y + ch <= pg.height - cfg.inner_margin_px
            /\ pg.qr_y + ch > pg.height => ch > pg.height - 2 * cfg.inner_margin_px

C10_Witness ==
    /\ pages # <<>>
    /\ cfg.inner_margin_px > 0
    /\ pages[1].text_h > 0
    /\ ContentHeight(pages[1]) <= pages[1].height - 2 * cfg.inner_margin_px
    /\ pages[1].qr_y > cfg.inner_margin_px

\* the pinned case of C10 happens: a block that passes the bottom edge
BottomOverflowReached ==
    /\ pages # <<>>
    /\ pages[1].qr_y + ContentHeight(pages[1]) > pages[1].height

====
